---- MODULE Spec2Model ----
(***************************************************************************)
(* Model of networkx.algorithms.non_randomness.non_randomness(G, k=None).  *)
(*                                                                         *)
(* One call is a run of the function body, one action per statement:       *)
(*   resolve k (lines 64-65), import numpy (67-71), nr (74), p (76-78),    *)
(*   nr_rd and return (81-83).                                             *)
(* The graph library, the community detection and the eigensolver are      *)
(* external: a graph is the triple the function consumes (number of nodes, *)
(* number of edges, the eigenvalue sequence the eigensolver returns for    *)
(* its adjacency matrix).  Eigenvalues are complex numbers with integer    *)
(* parts; p is the exact fraction pNum / pDen.                             *)
(***************************************************************************)
EXTENDS Integers, Sequences, FiniteSets

VARIABLES
    numpy,      \* environment: "import numpy" succeeds
    pc,         \* position of the current call
    G,          \* argument G of the current call
    kArgNone,   \* the call was made without k (k is None)
    k,          \* local k (0 stands for None until line 65 has run)
    nr,         \* local nr (line 74)
    pNum, pDen, \* local p = pNum / pDen (line 78)
    result,     \* outcome of the call: a returned pair or the exception raised
    lpCalls,    \* invocations of label_propagation_communities in this call
    lpResult,   \* number of communities the last invocation returned
    matCalls,   \* invocations of to_numpy_matrix in this call
    eigCalls,   \* invocations of numpy.linalg.eigvals in this call
    trace,      \* statements executed by this call, in order
    ref,        \* observer: outcome of one earlier call with explicit k
    calls       \* observer: calls started so far

vars == <<numpy, pc, G, kArgNone, k, nr, pNum, pDen, result, lpCalls,
          lpResult, matCalls, eigCalls, trace, ref, calls>>

----------------------------------------------------------------------------
(* Bounds of the model *)

\* explicit k ranges over -NegK .. MaxK
NegK == 2
MaxK == 5
\* calls per behaviour
MaxCalls == 3

----------------------------------------------------------------------------
(* Arithmetic helpers *)

Min(a, b) == IF a < b THEN a ELSE b

Max(a, b) == IF a > b THEN a ELSE b

Sign(x) == IF x > 0 THEN 1 ELSE IF x < 0 THEN -1 ELSE 0

\* a complex number with integer parts
C(re, im) == [re |-> re, im |-> im]

\* Python's seq[:stop]: a negative stop counts from the end, both clamped
Slice(s, stop) ==
    LET len == Len(s)
        hi  == IF stop < 0 THEN Max(len + stop, 0) ELSE Min(stop, len)
    IN  SubSeq(s, 1, hi)

\* numpy.sum over a complex array
RECURSIVE NpSum(_)
NpSum(s) ==
    IF s = <<>> THEN C(0, 0)
    ELSE LET t == NpSum(Tail(s))
         IN  C(Head(s).re + t.re, Head(s).im + t.im)

\* numpy.real
NpReal(z) == z.re

----------------------------------------------------------------------------
(* Graphs *)

\* every order of the sequence s
Orders(s) ==
    LET idx == 1..Len(s)
        bij == {f \in [idx -> idx] : \A i, j \in idx : f[i] = f[j] => i = j}
    IN  {[i \in idx |-> s[f[i]]] : f \in bij}

\* Small graphs with their node count, edge count and adjacency spectrum.
\*   E1, E2 : edgeless graphs on 1 and 2 nodes
\*   K2, K4 : complete graphs
\*   L4     : one self-loop of weight 2 and three isolated nodes
\*   Z4     : directed graph, self-loops of weight 1 on nodes 0 and 1, edges
\*            0->1 (weight 1) and 1->0 (weight -1), two isolated nodes
Catalogue ==
    { [name |-> "E1",   n |-> 1, m |-> 0, spectrum |-> <<C(0,0)>>],
      [name |-> "E2",   n |-> 2, m |-> 0, spectrum |-> <<C(0,0), C(0,0)>>],
      [name |-> "K2",   n |-> 2, m |-> 1, spectrum |-> <<C(1,0), C(-1,0)>>],
      [name |-> "K4",   n |-> 4, m |-> 6,
       spectrum |-> <<C(3,0), C(-1,0), C(-1,0), C(-1,0)>>],
      [name |-> "L4",   n |-> 4, m |-> 1,
       spectrum |-> <<C(2,0), C(0,0), C(0,0), C(0,0)>>],
      [name |-> "Z4",   n |-> 4, m |-> 4,
       spectrum |-> <<C(1,1), C(1,-1), C(0,0), C(0,0)>>] }

\* A graph argument: what the function reads of G.  eig is the sequence
\* numpy.linalg.eigvals returns for G's adjacency matrix; the solver fixes
\* one order per matrix and promises none, so every order is a possible graph.
Graphs ==
    UNION { { [name |-> g.name, n |-> g.n, m |-> g.m, eig |-> e] :
              e \in Orders(g.spectrum) } : g \in Catalogue }

NoGraph == [name |-> "", n |-> 0, m |-> 0, eig |-> <<>>]

number_of_nodes(g) == g.n

number_of_edges(g) == g.m

\* np.linalg.eigvals(nx.to_numpy_matrix(G))
eigvals(g) == g.eig

\* explicit values of the parameter k
KArgs == (0 - NegK)..MaxK

----------------------------------------------------------------------------
(* Values *)

NoValue == [kind |-> "none", num |-> 0, rad |-> 0]

NoResult == [status |-> "none", nr |-> 0, nr_rd |-> NoValue]

Raise(exc) == [status |-> exc, nr |-> 0, nr_rd |-> NoValue]

\* nr_rd = (nr - ((n - 2k) p + k)) / math.sqrt(2 k p (1 - p)), with p = a / b.
\* Over the common denominator: numerator = num / b, radicand = rad / b^2.
NrRdNum(n, kk, a, b, x) == x * b - ((n - 2 * kk) * a + kk * b)

NrRdRad(kk, a, b) == 2 * kk * a * (b - a)

\* sign of the zero 2*k*p*(1-p) evaluates to when it is zero (IEEE 754)
ZeroSign(n, kk, a) == IF a = 0 /\ kk # 0 /\ (kk < 0 \/ kk > n) THEN -1 ELSE 1

\* the value of line 81; numpy.float64 / 0.0 is inf, -inf or nan, not an error
NrRdValue(n, kk, a, b, x) ==
    LET num == Sign(b) * NrRdNum(n, kk, a, b, x)
        rad == NrRdRad(kk, a, b)
    IN  IF rad > 0 THEN [kind |-> "finite", num |-> num, rad |-> rad]
        ELSE IF num = 0 THEN [kind |-> "nan", num |-> 0, rad |-> 0]
        ELSE IF Sign(num) * ZeroSign(n, kk, a) > 0
             THEN [kind |-> "inf", num |-> 0, rad |-> 0]
             ELSE [kind |-> "-inf", num |-> 0, rad |-> 0]

----------------------------------------------------------------------------
(* The call *)

Init ==
    /\ numpy \in BOOLEAN
    /\ pc = "idle"
    /\ G = NoGraph
    /\ kArgNone = FALSE
    /\ k = 0
    /\ nr = 0
    /\ pNum = 0
    /\ pDen = 0
    /\ result = NoResult
    /\ lpCalls = 0
    /\ lpResult = 0
    /\ matCalls = 0
    /\ eigCalls = 0
    /\ trace = <<>>
    /\ ref = <<>>
    /\ calls = 0

\* a caller invokes non_randomness(g, kk) or non_randomness(g)
Call ==
    /\ pc = "idle"
    /\ calls < MaxCalls
    /\ \E g \in Graphs :
         /\ G' = g
         /\ \/ \E kk \in KArgs : kArgNone' = FALSE /\ k' = kk
            \/ kArgNone' = TRUE /\ k' = 0
    /\ pc' = "resolve_k"
    /\ calls' = calls + 1
    /\ nr' = 0 /\ pNum' = 0 /\ pDen' = 0
    /\ result' = NoResult
    /\ lpCalls' = 0 /\ lpResult' = 0 /\ matCalls' = 0 /\ eigCalls' = 0
    /\ trace' = <<>>
    /\ UNCHANGED <<numpy, ref>>

\* ResolveK with the result of a second detection run taken as k
ResolveK_Twice ==
    /\ pc = "resolve_k"
    /\ IF kArgNone
       THEN \E c \in 1..number_of_nodes(G) :
              /\ lpCalls' = lpCalls + 2
              /\ lpResult' = c
              /\ k' = c
              /\ trace' = Append(trace, "lpa")
       ELSE UNCHANGED <<lpCalls, lpResult, k, trace>>
    /\ pc' = "import"
    /\ UNCHANGED <<numpy, G, kArgNone, nr, pNum, pDen, result, matCalls,
                   eigCalls, ref, calls>>

\* ResolveK with the test "if not k" in place of "if k is None"
ResolveK_Falsy ==
    /\ pc = "resolve_k"
    /\ IF kArgNone \/ k = 0
       THEN \E c \in 1..number_of_nodes(G) :
              /\ lpCalls' = lpCalls + 1
              /\ lpResult' = c
              /\ k' = c
              /\ trace' = Append(trace, "lpa")
       ELSE UNCHANGED <<lpCalls, lpResult, k, trace>>
    /\ pc' = "import"
    /\ UNCHANGED <<numpy, G, kArgNone, nr, pNum, pDen, result, matCalls,
                   eigCalls, ref, calls>>

\* lines 64-65: if k is None: k = len(tuple(label_propagation_communities(G)))
ResolveK ==
    /\ pc = "resolve_k"
    /\ IF kArgNone
       THEN \E c \in 1..number_of_nodes(G) :
              /\ lpCalls' = lpCalls + 1
              /\ lpResult' = c
              /\ k' = c
              /\ trace' = Append(trace, "lpa")
       ELSE UNCHANGED <<lpCalls, lpResult, k, trace>>
    /\ pc' = "import"
    /\ UNCHANGED <<numpy, G, kArgNone, nr, pNum, pDen, result, matCalls,
                   eigCalls, ref, calls>>

\* ImportNumpy with the ImportError swallowed
ImportNumpy_Unchecked ==
    /\ pc = "import"
    /\ trace' = Append(trace, "import")
    /\ pc' = "eig"
    /\ UNCHANGED <<numpy, G, kArgNone, k, nr, pNum, pDen, result, lpCalls,
                   lpResult, matCalls, eigCalls, ref, calls>>

\* lines 67-71: try: import numpy as np / except ImportError: raise ImportError(msg)
ImportNumpy ==
    /\ pc = "import"
    /\ trace' = Append(trace, "import")
    /\ IF numpy
       THEN pc' = "eig" /\ UNCHANGED result
       ELSE pc' = "done" /\ result' = Raise("ImportError")
    /\ UNCHANGED <<numpy, G, kArgNone, k, nr, pNum, pDen, lpCalls, lpResult,
                   matCalls, eigCalls, ref, calls>>

\* Eigvals with nr accumulated on top of the value an earlier call returned
Eigvals_Accumulating ==
    /\ pc = "eig"
    /\ matCalls' = matCalls + 1
    /\ eigCalls' = eigCalls + 1
    /\ nr' = (IF ref # <<>> THEN ref[1].result.nr ELSE 0)
             + NpReal(NpSum(Slice(eigvals(G), k)))
    /\ trace' = Append(trace, "eig")
    /\ pc' = "p"
    /\ UNCHANGED <<numpy, G, kArgNone, k, pNum, pDen, result, lpCalls,
                   lpResult, ref, calls>>

\* line 74: nr = np.real(np.sum(np.linalg.eigvals(nx.to_numpy_matrix(G))[:k]))
Eigvals ==
    /\ pc = "eig"
    /\ matCalls' = matCalls + 1
    /\ eigCalls' = eigCalls + 1
    /\ nr' = NpReal(NpSum(Slice(eigvals(G), k)))
    /\ trace' = Append(trace, "eig")
    /\ pc' = "p"
    /\ UNCHANGED <<numpy, G, kArgNone, k, pNum, pDen, result, lpCalls,
                   lpResult, ref, calls>>

\* lines 76-78: n, m, p = (2 * k * m) / (n * (n - k))
ComputeP ==
    /\ pc = "p"
    /\ trace' = Append(trace, "p")
    /\ LET n == number_of_nodes(G)
           m == number_of_edges(G)
       IN  IF n * (n - k) = 0
           THEN /\ pc' = "done"
                /\ result' = Raise("ZeroDivisionError")
                /\ UNCHANGED <<pNum, pDen>>
           ELSE /\ pc' = "nr_rd"
                /\ pNum' = 2 * k * m
                /\ pDen' = n * (n - k)
                /\ UNCHANGED result
    /\ UNCHANGED <<numpy, G, kArgNone, k, nr, lpCalls, lpResult, matCalls,
                   eigCalls, ref, calls>>

\* ComputeNrRd with math.sqrt(2 * k * p * (p - 1))
ComputeNrRd_SignFlipped ==
    /\ pc = "nr_rd"
    /\ trace' = Append(trace, "nr_rd")
    /\ pc' = "done"
    /\ IF NrRdRad(k, pNum, pDen) > 0
       THEN result' = Raise("ValueError")
       ELSE result' = [status |-> "returned", nr |-> nr,
                       nr_rd |-> NrRdValue(number_of_nodes(G), k, pNum, 0 - pDen, nr)]
    /\ UNCHANGED <<numpy, G, kArgNone, k, nr, pNum, pDen, lpCalls, lpResult,
                   matCalls, eigCalls, ref, calls>>

\* ComputeNrRd with math.sqrt(abs(2 * k * p * (1 - p)))
ComputeNrRd_Abs ==
    /\ pc = "nr_rd"
    /\ trace' = Append(trace, "nr_rd")
    /\ pc' = "done"
    /\ result' = [status |-> "returned", nr |-> nr,
                  nr_rd |-> IF NrRdRad(k, pNum, pDen) < 0
                            THEN [kind |-> "finite",
                                  num |-> Sign(pDen) * NrRdNum(number_of_nodes(G), k, pNum, pDen, nr),
                                  rad |-> 0 - NrRdRad(k, pNum, pDen)]
                            ELSE NrRdValue(number_of_nodes(G), k, pNum, pDen, nr)]
    /\ UNCHANGED <<numpy, G, kArgNone, k, nr, pNum, pDen, lpCalls, lpResult,
                   matCalls, eigCalls, ref, calls>>

\* lines 81-83: nr_rd = (...) / math.sqrt(2 * k * p * (1 - p)); return nr, nr_rd
ComputeNrRd ==
    /\ pc = "nr_rd"
    /\ trace' = Append(trace, "nr_rd")
    /\ pc' = "done"
    /\ IF NrRdRad(k, pNum, pDen) < 0
       THEN result' = Raise("ValueError")
       ELSE result' = [status |-> "returned", nr |-> nr,
                       nr_rd |-> NrRdValue(number_of_nodes(G), k, pNum, pDen, nr)]
    /\ UNCHANGED <<numpy, G, kArgNone, k, nr, pNum, pDen, lpCalls, lpResult,
                   matCalls, eigCalls, ref, calls>>

\* observer: keep the outcome of a finished call that had an explicit k
Observe ==
    /\ pc = "done"
    /\ ref = <<>>
    /\ ~kArgNone
    /\ ref' = <<[G |-> G, k |-> k, result |-> result, call |-> calls]>>
    /\ UNCHANGED <<numpy, pc, G, kArgNone, k, nr, pNum, pDen, result, lpCalls,
                   lpResult, matCalls, eigCalls, trace, calls>>

\* the call is over: its locals are gone
Return ==
    /\ pc = "done"
    /\ pc' = "idle"
    /\ G' = NoGraph /\ kArgNone' = FALSE /\ k' = 0
    /\ nr' = 0 /\ pNum' = 0 /\ pDen' = 0
    /\ result' = NoResult
    /\ lpCalls' = 0 /\ lpResult' = 0 /\ matCalls' = 0 /\ eigCalls' = 0
    /\ trace' = <<>>
    /\ UNCHANGED <<numpy, ref, calls>>

Next ==
    \/ Call
    \/ ResolveK
    \/ ImportNumpy
    \/ Eigvals
    \/ ComputeP
    \/ ComputeNrRd
    \/ Observe
    \/ Return

Spec == Init /\ [][Next]_vars

----------------------------------------------------------------------------
(* Vocabulary of the properties *)

Done == pc = "done"

Returned == Done /\ result.status = "returned"

\* the first kk positions of s (none when kk <= 0, all when kk > Len(s))
FirstK(s, kk) == SubSeq(s, 1, Min(Max(kk, 0), Len(s)))

\* sum of the real parts of the elements of s
RECURSIVE SumRe(_)
SumRe(s) == IF s = <<>> THEN 0 ELSE Head(s).re + SumRe(Tail(s))

\* sum of the real parts of s at the positions in S
RECURSIVE SumReAt(_, _)
SumReAt(s, S) ==
    IF S = {} THEN 0
    ELSE LET i == CHOOSE j \in S : TRUE
         IN  s[i].re + SumReAt(s, S \ {i})

\* sum of the kk largest real parts of s
KLargestSum(s, kk) ==
    LET sums == {SumReAt(s, S) : S \in {T \in SUBSET (1..Len(s)) : Cardinality(T) = kk}}
    IN  CHOOSE v \in sums : \A w \in sums : w <= v

\* trace is an initial part of order
IsPrefix(t, order) == Len(t) <= Len(order) /\ t = SubSeq(order, 1, Len(t))

Count(t, x) == Cardinality({i \in 1..Len(t) : t[i] = x})

\* 0 < k < n for the current call
KInRange == 0 < k /\ k < G.n

----------------------------------------------------------------------------
(* C1 *)

\* C1: whenever a call with an explicit k returns, nr is the sum of the real
\* parts of the eigenvalues at the first k positions of the solver's sequence
\* (all of them when k exceeds their number).
C1_NrIsSumOfFirstK ==
    (Returned /\ ~kArgNone) => result.nr = SumRe(FirstK(eigvals(G), k))

(* C2 *)

\* C2: whenever a call with an explicit k, 0 < k < n, returns, nr is the sum of
\* the k largest real parts of the spectrum, whatever order the solver used.
C2_NrIsSumOfKLargest ==
    (Returned /\ ~kArgNone /\ KInRange) => result.nr = KLargestSum(eigvals(G), k)

(* C3 *)

\* C3: a call with k <= 0, k >= n or n <= 1 ends in an invalid-argument error
\* raised before the eigendecomposition: never a return, never a raw
\* arithmetic fault, and the eigendecomposition has not run.
C3_InvalidArgumentsRejected ==
    (Done /\ numpy /\ ~kArgNone /\ (k <= 0 \/ k >= G.n \/ G.n <= 1))
        => /\ result.status \notin {"returned", "ZeroDivisionError", "ValueError"}
           /\ eigCalls = 0

(* C4 *)

\* C4: whenever p was computed as 0 or 1, the call ends in an error and
\* returns no pair (so no NaN or infinite nr_rd is returned).
C4_DegeneratePRaises ==
    (Done /\ pDen # 0 /\ (pNum = 0 \/ pNum = pDen))
        => result.status \notin {"returned", "none"}

(* C5 *)

\* 0 < p < 1 for the current call, with p = 2km / (n(n-k)) and 0 < k < n
PInsideUnit == 0 < 2 * k * G.m /\ 2 * k * G.m < G.n * (G.n - k)

\* C5: a call with an explicit k, 0 < k < n and 0 < p < 1 ends in a return of
\* a finite pair, without any error.
C5_ValidRangeReturnsFinite ==
    (Done /\ ~kArgNone /\ KInRange /\ PInsideUnit)
        => Returned /\ result.nr_rd.kind = "finite"

\* C5 (amended): with numpy importable, a call with an explicit k, 0 < k < n
\* and 0 < p < 1 never raises: at line 81 the divisor n(n-k) was non-zero and
\* the square-root argument is strictly positive, and the call ends in a
\* return of a finite pair.
C5_ValidRangeReturnsFiniteWithNumpy ==
    (numpy /\ ~kArgNone /\ KInRange /\ PInsideUnit)
        => /\ pc = "nr_rd" => (pDen # 0 /\ NrRdRad(k, pNum, pDen) > 0)
           /\ Done => (Returned /\ result.nr_rd.kind = "finite")

C5_Witness ==
    /\ Returned /\ numpy /\ ~kArgNone /\ KInRange /\ PInsideUnit
    /\ k = 2
    /\ result.nr_rd.kind = "finite"

(* C6 *)

\* C6: in a call made without k, community detection has been invoked exactly
\* once as soon as k is resolved, and the k used for the eigenvalue slice, for
\* p and for nr_rd is the number of communities that invocation returned.
C6_DetectionOnceAndUsed ==
    (kArgNone /\ pc \notin {"idle", "resolve_k"})
        => /\ lpCalls = 1
           /\ k = lpResult
           /\ Count(trace, "eig") = 1
                => nr = NpReal(NpSum(Slice(eigvals(G), lpResult)))
           /\ pc = "nr_rd"
                => (pNum = 2 * lpResult * G.m /\ pDen = G.n * (G.n - lpResult))
           /\ Returned
                => result = [status |-> "returned", nr |-> nr,
                             nr_rd |-> NrRdValue(G.n, lpResult, 2 * lpResult * G.m,
                                                 G.n * (G.n - lpResult), nr)]

C6_Witness ==
    /\ Returned /\ kArgNone
    /\ lpCalls = 1 /\ lpResult = 2 /\ k = 2
    /\ result.nr_rd.kind = "finite"

(* C7 *)

\* C7: when numpy cannot be imported, a call never builds the adjacency
\* matrix nor runs the eigendecomposition, attempts the import once, and ends
\* in ImportError without a result pair.
C7_MissingDependencyFailsFast ==
    ~numpy
        => /\ matCalls = 0
           /\ eigCalls = 0
           /\ Count(trace, "import") <= 1
           /\ pc \notin {"eig", "p", "nr_rd"}
           /\ Done => result = Raise("ImportError")

C7_Witness ==
    /\ ~numpy /\ Done
    /\ result.status = "ImportError"
    /\ matCalls = 0 /\ eigCalls = 0

(* C8 *)

\* C8: a finished call with an explicit k has the outcome of any earlier call
\* on the same graph with the same k, whatever calls were made in between.
C8_SameArgumentsSameOutcome ==
    (Done /\ ~kArgNone /\ ref # <<>> /\ ref[1].G = G /\ ref[1].k = k)
        => result = ref[1].result

C8_Witness ==
    /\ Done /\ ~kArgNone /\ ref # <<>>
    /\ ref[1].G = G /\ ref[1].k = k
    /\ calls >= ref[1].call + 2
    /\ result = ref[1].result
    /\ result.status = "returned" /\ result.nr # 0

(* C9 *)

\* C9: a call with an explicit k, 0 < k < n and 2km > n(n-k) (p > 1) ends in
\* the domain error of math.sqrt, raised after the eigendecomposition ran.
C9_PAboveOneDomainError ==
    (Done /\ ~kArgNone /\ KInRange /\ 2 * k * G.m > G.n * (G.n - k))
        => /\ result = Raise("ValueError")
           /\ eigCalls = 1

\* C9 (amended): with numpy importable, a call with an explicit k, 0 < k < n
\* and 2km > n(n-k) has a negative square-root argument at line 81 and ends in
\* the domain error of math.sqrt, raised after the eigendecomposition ran.
C9_PAboveOneDomainErrorWithNumpy ==
    (numpy /\ ~kArgNone /\ KInRange /\ 2 * k * G.m > G.n * (G.n - k))
        => /\ pc = "nr_rd" => NrRdRad(k, pNum, pDen) < 0
           /\ Done => (result = Raise("ValueError") /\ eigCalls = 1)

C9_Witness ==
    /\ Done /\ numpy /\ ~kArgNone
    /\ G.name = "K4" /\ k = 2
    /\ result.status = "ValueError"
    /\ eigCalls = 1

(* C10 *)

\* the statements of one call, in order
StatementOrder ==
    IF kArgNone THEN <<"lpa", "import", "eig", "p", "nr_rd">>
    ELSE <<"import", "eig", "p", "nr_rd">>

\* C10: the statements of a call run in the order: community detection (only
\* when k is omitted), import check, eigendecomposition and nr, p, nr_rd.  So
\* a call without k that fails on the import has run community detection
\* once, and a call with k never runs it.
C10_StepOrder ==
    /\ IsPrefix(trace, StatementOrder)
    /\ (Done /\ kArgNone /\ ~numpy)
         => (lpCalls = 1 /\ trace = <<"lpa", "import">>
             /\ result.status = "ImportError")
    /\ ~kArgNone => lpCalls = 0

C10_Witness ==
    /\ Done /\ kArgNone /\ ~numpy
    /\ lpCalls = 1
    /\ result.status = "ImportError"

====
